---- MODULE Spec2Model ----
(***************************************************************************)
(* Model of the sublime-scp plugin: the connection registry of             *)
(* core/scpfolder.py and the put/get/cancel commands of commands.py.       *)
(* Paths are Python strings, modelled as sequences of one-character        *)
(* strings, so that str.startswith, the `in` substring test and            *)
(* os.path.split are computed on the characters as the code computes them. *)
(***************************************************************************)
EXTENDS Integers, Sequences, FiniteSets, TLC

VARIABLES
    win32,        \* sys.platform == "win32"
    scpDirs,      \* local directories that directly contain a ".scp" file
    connections,  \* scpfolder.connections: the list of SCPFolder objects
    nextId,       \* identity of the next SCPFolder object constructed
    call,         \* the last registry call made: its name, argument, result
    cancelled,    \* ids of the sessions whose transport has been told to cancel
    unit,         \* the background unit running a put or get executor
    localTmp,     \* temporary archive files present on the local disk
    remoteTmp,    \* archive files present in the remote /tmp directory
    nextTmp,      \* the name tempfile.mkstemp hands out next
    cancelCmd,    \* how the last run of the cancel command ended
    mapperCall,   \* the last path-mapping call or session operation made
    cmds          \* the connect commands: their thread field and their unit

rvars == <<win32, scpDirs, connections, nextId, call>>
tvars == <<cancelled, unit, localTmp, remoteTmp, nextTmp, cancelCmd>>
xvars == <<mapperCall, cmds>>
vars == <<win32, scpDirs, connections, nextId, call,
          cancelled, unit, localTmp, remoteTmp, nextTmp, cancelCmd,
          mapperCall, cmds>>

\* ------------------------------------------------------------------ bounds

\* SCPFolder objects constructed over a run of the registry.
MaxConnects == 3

\* Paths handed to one put, get or cancel command.
MaxPaths == 2

\* ----------------------------------------------------------------- strings

Empty == <<>>
Dot == <<".">>
DotScp == <<".", "s", "c", "p">>
DotDot == <<".", ".">>
Slash == <<"/">>

\* str.startswith
StartsWith(s, t) == Len(t) <= Len(s) /\ SubSeq(s, 1, Len(t)) = t

\* the substring test `t in s`
Contains(s, t) ==
    \E i \in 1..(Len(s) - Len(t) + 1) : SubSeq(s, i, i + Len(t) - 1) = t

LowerChar(c) == IF c = "P" THEN "p" ELSE IF c = "Q" THEN "q" ELSE c

\* str.lower
Lower(s) == [i \in 1..Len(s) |-> LowerChar(s[i])]

\* s.rfind("/") + 1
RFind(s) ==
    LET hits == {i \in 1..Len(s) : s[i] = "/"}
    IN  IF hits = {} THEN 0 ELSE CHOOSE i \in hits : \A j \in hits : j <= i

AllSlash(s) == \A i \in 1..Len(s) : s[i] = "/"

RECURSIVE RStrip(_)
\* s.rstrip("/")
RStrip(s) ==
    IF s # Empty /\ s[Len(s)] = "/" THEN RStrip(SubSeq(s, 1, Len(s) - 1)) ELSE s

\* os.path.split: <<head, tail>>
Split(s) ==
    LET i == RFind(s)
        head == SubSeq(s, 1, i)
        tail == SubSeq(s, i + 1, Len(s))
    IN  <<IF head # Empty /\ ~AllSlash(head) THEN RStrip(head) ELSE head, tail>>

\* os.path.join of two components
Join(a, b) ==
    IF StartsWith(b, Slash) THEN b
    ELSE IF a = Empty \/ a[Len(a)] = "/" THEN a \o b
    ELSE a \o Slash \o b

\* os.path.dirname
DirName(s) == Split(s)[1]

\* ------------------------------------------------------------ the local disk

\* The directories that may carry a mapping declaration, and the paths the
\* registry is asked about: a mapped directory /p, a mapped directory /p/q
\* nested in it, a sibling /p2 whose name extends /p, an unmapped /x, an
\* upper-case spelling /P of /p, and the empty path.
DirP == <<"/", "p">>
DirPQ == <<"/", "p", "/", "q">>
DirP2 == <<"/", "p", "2">>
DirX == <<"/", "x">>

MappableDirs == {DirP, DirPQ, DirP2}

RegistryPaths ==
    { Empty,
      DirP, DirP \o <<"/", "f">>,
      DirPQ, DirPQ \o <<"/", "f">>,
      DirP2 \o <<"/", "f">>,
      <<"/", "P", "/", "f">>,
      DirX \o <<"/", "f">> }

\* os.path.exists(os.path.join(path, ".scp")); a win32 file system ignores case
HasScp(path) == (IF win32 THEN Lower(path) ELSE path) \in scpDirs

\* the "path" entry of the declaration file found in `root`
ConfigPath(root) ==
    IF Lower(root) = DirP2 THEN Slash ELSE <<"/", "r">>

\* ------------------------------------------------------------- scpfolder.py

NoRoot == Empty

RECURSIVE RootDirLoop(_, _)
RootDirLoop(path, name) ==
    IF path # Empty /\ name # Empty /\ name # DotScp
    THEN IF HasScp(path)
         THEN path
         ELSE LET s == Split(path) IN RootDirLoop(s[1], s[2])
    ELSE NoRoot

\* a walk that starts at the parent of file_name
root_dir_FromParent(file_name) ==
    IF file_name # Empty
    THEN RootDirLoop(Split(file_name)[1], Split(file_name)[2])
    ELSE NoRoot

\* root_dir(file_name): the mapped directory at or above file_name, or a
\* falsy value
root_dir(file_name) ==
    IF file_name # Empty THEN RootDirLoop(file_name, Dot) ELSE NoRoot

\* The object no call returns: stands for False / a raised error.
NoSession == [id |-> 0, root |-> Empty, remote_path |-> Empty]

\* a lookup that accepts a client only when the path is its root itself
FirstMatch_Exact(conns, p) ==
    LET hits == {i \in 1..Len(conns) : p = conns[i].root}
    IN  IF hits = {} THEN 0 ELSE CHOOSE i \in hits : \A j \in hits : i <= j

\* the first client, in list order, whose root the path starts with
FirstMatch(conns, p) ==
    LET hits == {i \in 1..Len(conns) : StartsWith(p, conns[i].root)}
    IN  IF hits = {} THEN 0 ELSE CHOOSE i \in hits : \A j \in hits : i <= j

\* connection(path): index into conns of the client returned, 0 when it
\* raises ScpNotConnectedError
connection(conns, path) ==
    IF path # Empty
    THEN FirstMatch(conns, IF win32 THEN Lower(path) ELSE path)
    ELSE 0

\* is_connected(path)
is_connected(conns, path) ==
    /\ path # Empty
    /\ \E i \in 1..Len(conns) :
           StartsWith(IF win32 THEN Lower(path) ELSE path, conns[i].root)

\* SCPFolder.__init__(path): the object built, or NoSession when it raises
\* (no mapped folder above path, or the declaration file cannot be read)
SCPFolderInit(path, cfgOk, id) ==
    LET root == root_dir(path)
    IN  IF root = NoRoot \/ ~cfgOk
        THEN NoSession
        ELSE [id |-> id, root |-> root, remote_path |-> ConfigPath(root)]

\* connect without the lookup of an existing client: always constructs one
connect_NoLookup(conns, path, cfgOk, id) ==
    LET client == SCPFolderInit(IF win32 THEN Lower(path) ELSE path, cfgOk, id)
    IN  IF client = NoSession
        THEN <<conns, NoSession>>
        ELSE <<Append(conns, client), client>>

\* connect(path): <<the list afterwards, the client returned or NoSession>>
connect(conns, path, cfgOk, id) ==
    LET i == connection(conns, path)
    IN  IF i # 0
        THEN <<conns, conns[i]>>
        ELSE LET client == SCPFolderInit(IF win32 THEN Lower(path) ELSE path,
                                         cfgOk, id)
             IN  IF client = NoSession
                 THEN <<conns, NoSession>>
                 ELSE <<Append(conns, client), client>>

\* list.remove(x): the list without its first element equal to x
ListRemove(conns, i) ==
    SubSeq(conns, 1, i - 1) \o SubSeq(conns, i + 1, Len(conns))

\* disconnect with an `if` in place of the `while True` loop
disconnect_Once(conns, path) ==
    LET i == connection(conns, path)
    IN  IF i = 0 THEN conns ELSE ListRemove(conns, i)

RECURSIVE disconnect(_, _)
\* disconnect(path): the list after the `while True` loop has ended
disconnect(conns, path) ==
    LET i == connection(conns, path)
    IN  IF i = 0 THEN conns ELSE disconnect(ListRemove(conns, i), path)

\* ---------------------------------------------------------- registry calls

NoCall == [op |-> "none", path |-> Empty, result |-> 0, again |-> FALSE]

Called(op, path, result) ==
    [op |-> op, path |-> path, result |-> result,
     again |-> (call.op = op /\ call.path = path)]

\* no command has been run
NoUnit ==
    [kind |-> "none", pc |-> "idle", paths |-> <<>>, groups |-> <<>>,
     todo |-> {}, cur |-> 0, tmp |-> 0, pending |-> "none", exc |-> "none",
     log |-> <<>>, signalled |-> FALSE]

NoCancel == [outcome |-> "none", status |-> FALSE]

\* no path-mapping call has been made
NoMapperCall ==
    [op |-> "none", path |-> Empty, client |-> NoSession, raised |-> FALSE,
     result |-> Empty, io |-> <<>>]

\* a connect command as constructed: self.thread = None, nothing running
NewCommand ==
    [thread |-> "None", ui |-> "idle", pc |-> "none", paths |-> <<>>,
     k |-> 0, client |-> NoSession, ok |-> TRUE]

CommandIds == {1, 2}

TransferIdle ==
    /\ mapperCall = NoMapperCall
    /\ cmds = [c \in CommandIds |-> NewCommand]
    /\ cancelled = {}
    /\ unit = NoUnit
    /\ localTmp = {}
    /\ remoteTmp = {}
    /\ nextTmp = 1
    /\ cancelCmd = NoCancel

RegistryInit ==
    /\ win32 \in BOOLEAN
    /\ scpDirs \in SUBSET MappableDirs
    /\ connections = <<>>
    /\ nextId = 1
    /\ call = NoCall
    /\ TransferIdle

Connect(path) ==
    \E cfgOk \in BOOLEAN :
        LET r == connect(connections, path, cfgOk, nextId)
        IN  /\ (r[2].id = nextId) => nextId <= MaxConnects
            /\ connections' = r[1]
            /\ nextId' = IF r[2].id = nextId THEN nextId + 1 ELSE nextId
            /\ call' = Called("connect", path, r[2].id)
            /\ UNCHANGED <<win32, scpDirs>>
            /\ UNCHANGED <<tvars, xvars>>

\* the result recorded for disconnect is the number of clients it removed
Disconnect(path) ==
    /\ connections' = disconnect(connections, path)
    /\ call' = Called("disconnect", path,
                      Len(connections) - Len(disconnect(connections, path)))
    /\ UNCHANGED <<win32, scpDirs, nextId>>
    /\ UNCHANGED <<tvars, xvars>>

ConnectionCall(path) ==
    LET i == connection(connections, path)
    IN  /\ call' = Called("connection", path,
                          IF i = 0 THEN 0 ELSE connections[i].id)
        /\ UNCHANGED <<win32, scpDirs, connections, nextId>>
        /\ UNCHANGED <<tvars, xvars>>

IsConnectedCall(path) ==
    /\ call' = Called("is_connected", path,
                      IF is_connected(connections, path) THEN 1 ELSE 0)
    /\ UNCHANGED <<win32, scpDirs, connections, nextId>>
    /\ UNCHANGED <<tvars, xvars>>

RegistryNext ==
    \E path \in RegistryPaths :
        \/ Connect(path)
        \/ Disconnect(path)
        \/ ConnectionCall(path)
        \/ IsConnectedCall(path)

Spec == RegistryInit /\ [][RegistryNext]_vars

\* ------------------------------------------------------- registry properties

\* the path as the lookups compare it
Norm(path) == IF win32 THEN Lower(path) ELSE path

\* root is `path` itself or one of its ancestor directories
IsPathPrefix(root, path) ==
    \/ path = root
    \/ StartsWith(path, IF root[Len(root)] = "/" THEN root ELSE root \o Slash)

\* indices of the sessions whose root is a path-prefix of `path`
PrefixSessions(conns, path) ==
    {i \in 1..Len(conns) : path # Empty /\ IsPathPrefix(conns[i].root, Norm(path))}

Min(S) == CHOOSE i \in S : \A j \in S : i <= j

\* C5: a connect(path) that follows a successful connect(path) returns the
\* same session and leaves the registry as it was.
C5_ConnectIdempotent ==
    [][ ( /\ call.op = "connect" /\ call.result # 0
          /\ call'.op = "connect" /\ call'.path = call.path )
        => (call'.result = call.result /\ connections' = connections) ]_vars

\* C5 witness: a second connect in succession on the same path has returned
\* a session, with another session registered as well.
C5_Witness ==
    /\ call.op = "connect" /\ call.again /\ call.result # 0
    /\ Len(connections) >= 2

\* C6 (as claimed): for every local path at most one session of the registry
\* has a root that is a prefix of the path.
C6_AtMostOnePrefixSession ==
    \A p \in RegistryPaths : Cardinality(PrefixSessions(connections, p)) <= 1

\* no mapped directory lies inside another mapped directory
NoNestedMapping ==
    \A d, e \in scpDirs : d # e => ~IsPathPrefix(d, e)

\* C6 (amended): no session's root starts with the root of a session
\* registered before it (so no two sessions share a root, and the sessions
\* whose root is a prefix of one path were registered innermost first); and
\* when no mapped directory is nested in another, at most one session has a
\* root that is a path-prefix of any given path.
C6_PrefixSessionsInnermostFirst ==
    /\ \A i, j \in 1..Len(connections) :
           i < j => ~StartsWith(connections[j].root, connections[i].root)
    /\ \A p \in RegistryPaths :
           /\ \A i, j \in PrefixSessions(connections, p) :
                  i < j => Len(connections[j].root) < Len(connections[i].root)
           /\ NoNestedMapping => Cardinality(PrefixSessions(connections, p)) <= 1

\* C6 witness: two sessions whose roots both prefix one path are registered.
C6_Witness ==
    \E p \in RegistryPaths : Cardinality(PrefixSessions(connections, p)) = 2

\* C7 (as claimed): connection(path) returns the earliest-registered session
\* whose root is a path-prefix of path, and fails exactly when there is none.
C7_ConnectionIsFirstPathPrefix ==
    call.op = "connection" =>
        LET hits == PrefixSessions(connections, call.path)
        IN  call.result = IF hits = {} THEN 0 ELSE connections[Min(hits)].id

\* the session matches the path by the registry's own test
Matches(c, path) == path # Empty /\ StartsWith(Norm(path), c.root)

DotGit == <<".", "g", "i", "t">>

RECURSIVE SegsLoop(_, _, _)
SegsLoop(s, cur, acc) ==
    IF s = Empty
    THEN IF cur = Empty THEN acc ELSE Append(acc, cur)
    ELSE IF Head(s) = "/"
         THEN SegsLoop(Tail(s), Empty, IF cur = Empty THEN acc ELSE Append(acc, cur))
         ELSE SegsLoop(Tail(s), Append(cur, Head(s)), acc)

\* [x for x in s.split("/") if x]
Segs(s) == SegsLoop(s, Empty, <<>>)

RECURSIVE JoinSegs(_)
\* "/".join(segs)
JoinSegs(segs) ==
    IF Len(segs) = 0 THEN Empty
    ELSE IF Len(segs) = 1 THEN segs[1]
    ELSE segs[1] \o Slash \o JoinSegs(Tail(segs))

\* the number of leading components two component lists share
CommonLen(a, b) ==
    LET n == IF Len(a) < Len(b) THEN Len(a) ELSE Len(b)
        same == {k \in 0..n : SubSeq(a, 1, k) = SubSeq(b, 1, k)}
    IN  CHOOSE k \in same : \A j \in same : j <= k

\* os.path.relpath(path, start) for absolute normalised paths
RelPath(path, start) ==
    LET sl == Segs(start)
        pl == Segs(path)
        i == CommonLen(sl, pl)
        rel == [k \in 1..(Len(sl) - i) |-> DotDot] \o SubSeq(pl, i + 1, Len(pl))
    IN  IF rel = <<>> THEN Dot ELSE JoinSegs(rel)

\* s.replace("\\", "/")
Replace(s) == [i \in 1..Len(s) |-> IF s[i] = "\\" THEN "/" ELSE s[i]]

\* a mapping without the test for ".."
to_remote_path_Unchecked(client, path) ==
    IF path = client.root
    THEN [raised |-> FALSE, val |-> client.remote_path]
    ELSE [raised |-> FALSE,
          val |-> Replace(Join(client.remote_path, RelPath(path, client.root)))]

\* SCPFolder.to_remote_path(path): the remote path, or raised = TRUE for
\* ValueError("Invalid path!")
to_remote_path(client, path) ==
    IF path = client.root
    THEN [raised |-> FALSE, val |-> client.remote_path]
    ELSE LET remote_path ==
                 Replace(Join(client.remote_path, RelPath(path, client.root)))
         IN  IF Contains(remote_path, DotDot)
             THEN [raised |-> TRUE, val |-> Empty]
             ELSE [raised |-> FALSE, val |-> remote_path]

\* The local tree of the transfers: the directories; every other path the
\* commands are given is a regular file.
LocalDirs == {Slash, DirP, DirPQ, DirP2, DirX}

\* os.path.isfile
IsFile(path) == path \notin LocalDirs

\* The paths handed to the commands: a file and a directory under the
\* mapped /p, the mapped directory /p2, a file under the unmapped /x, and
\* the declaration file of /p.
TransferPaths ==
    { DirP \o <<"/", "f">>, DirPQ, DirP2,
      DirX \o <<"/", "f">>, DirP \o Slash \o DotScp }

\* the sequences of 0..n distinct elements of S
RECURSIVE SeqsUpTo(_, _)
SeqsUpTo(S, n) ==
    IF n = 0 THEN {<<>>}
    ELSE LET shorter == SeqsUpTo(S, n - 1)
         IN  shorter \cup
             {Append(q, x) : q \in {r \in shorter : Len(r) = n - 1}, x \in S}

Distinct(q) == \A i, j \in 1..Len(q) : i # j => q[i] # q[j]

\* what a command receives: ensure_paths() passes the selection on
PathLists == {q \in SeqsUpTo(TransferPaths, MaxPaths) : Distinct(q)}

RECURSIVE CommonSegs(_)
\* the longest list of leading components all the paths of `dirs` share
CommonSegs(dirs) ==
    IF Len(dirs) = 1 THEN Segs(dirs[1])
    ELSE LET rest == CommonSegs(Tail(dirs))
         IN  SubSeq(rest, 1, CommonLen(Segs(dirs[1]), rest))

\* commonpath.most(paths): the deepest directory at or above every path, a
\* directory among the paths counting as its own parent
most(paths) ==
    LET dirs == [i \in 1..Len(paths) |->
                    IF IsFile(paths[i]) THEN DirName(paths[i]) ELSE paths[i]]
    IN  Slash \o JoinSegs(CommonSegs(dirs))

\* any(f in path for f in ('.scp', '.git'))
Filtered(path) == \E f \in {DotScp, DotGit} : Contains(path, f)

\* groups.setdefault(conn, []).append(path)
SetDefaultAppend(groups, conn, path) ==
    IF \E k \in 1..Len(groups) : groups[k].conn = conn
    THEN [k \in 1..Len(groups) |->
             IF groups[k].conn = conn
             THEN [groups[k] EXCEPT !.paths = Append(@, path)]
             ELSE groups[k]]
    ELSE Append(groups, [conn |-> conn, paths |-> <<path>>])

\* The class connection() raises, and the class the commands' except
\* clauses name: two unrelated subclasses of Exception.
RaisedNotConnected == "scpfolder.ScpNotConnectedError"
HandledNotConnected == "scpclient.SCPNotConnectedError"

\* whether an `except handled:` clause catches an exception of class raised
ExceptNotConnected(raised, handled) == raised = handled

RECURSIVE GroupLoop(_, _)
\* the grouping loop of the put and get executors: the groups built, or
\* raised = TRUE when the lookup's error leaves the loop
GroupLoop(paths, groups) ==
    IF paths = <<>>
    THEN [raised |-> FALSE, groups |-> groups]
    ELSE LET path == Head(paths)
             i == connection(connections, path)
         IN  IF Filtered(path)
             THEN GroupLoop(Tail(paths), groups)
             ELSE IF i # 0
             THEN GroupLoop(Tail(paths),
                            SetDefaultAppend(groups, connections[i], path))
             ELSE IF ExceptNotConnected(RaisedNotConnected, HandledNotConnected)
             THEN GroupLoop(Tail(paths), groups)
             ELSE [raised |-> TRUE, groups |-> groups]

\* ------------------------------------------------------------ the transport

\* How a call into the transport (SCPClient putfile, getfile, remove, plink)
\* ends: it returns, raises SCPCommandError, or -- once cancel() has been
\* called on the session -- unwinds with the abort error.
Outcomes(client) ==
    {"ok", "SCPCommandError"}
        \cup (IF client.id \in cancelled THEN {"AbortedError"} ELSE {})

\* the pipelines' `except SCPCommandError as err:` clause
\* an except clause that catches nothing
CaughtByPipeline_Never(exc) == FALSE

CaughtByPipeline(exc) == exc = "SCPCommandError"

\* the events of a transport call that ended with `o`
CallEvents(g, name, o) ==
    IF o = "AbortedError" THEN <<<<g, name>>, <<g, "abort">>>>
    ELSE IF o = "SCPCommandError" THEN <<<<g, name>>, <<g, "error">>>>
    ELSE <<<<g, name>>>>

\* --------------------------------------------------------- ScpPutCommand

\* the loop over groups.items() reaches group g; the order of the groups is
\* that of a dict keyed by objects, so any group not yet taken may be next
Attempt(g) == [unit EXCEPT !.todo = @ \ {g}, !.cur = g]

Raise(u, exc) == [u EXCEPT !.pc = "raised", !.exc = exc]

Logged(u, events) == [u EXCEPT !.log = @ \o events]

\* the branch test with the file test turned round
IsSingle_NotAFile(grp) == Len(grp.paths) = 1 /\ ~IsFile(grp.paths[1])

IsSingle(grp) == Len(grp.paths) = 1 /\ IsFile(grp.paths[1])

\* run() and the grouping loop of executor()
PutExecute(paths) ==
    /\ unit.pc = "idle"
    /\ LET r == GroupLoop(paths, <<>>)
           u == [unit EXCEPT !.kind = "put", !.paths = paths]
       IN  unit' = IF r.raised
                   THEN Raise(u, RaisedNotConnected)
                   ELSE [u EXCEPT !.pc = "loop", !.groups = r.groups,
                                  !.todo = 1..Len(r.groups)]
    /\ UNCHANGED <<xvars, rvars, cancelled, localTmp, remoteTmp, nextTmp, cancelCmd>>

\* one turn of `for conn, paths in groups.items()` that takes the
\* single-file branch: conn.putfile(paths[0])
PutSingle(g) ==
    /\ unit.kind = "put" /\ unit.pc = "loop" /\ g \in unit.todo
    /\ IsSingle(unit.groups[g])
    /\ LET grp == unit.groups[g]
           remote == to_remote_path(grp.conn, grp.paths[1])
       IN  IF remote.raised
           THEN unit' = Raise(Attempt(g), "ValueError")
           ELSE \E o \in Outcomes(grp.conn) :
                    unit' = IF o = "ok"
                            THEN Logged(Attempt(g),
                                        <<<<g, "putfile">>, <<g, "status_ok">>>>)
                            ELSE Raise(Logged(Attempt(g),
                                              CallEvents(g, "putfile", o)), o)
    /\ UNCHANGED <<xvars, rvars, cancelled, localTmp, remoteTmp, nextTmp, cancelCmd>>

\* puttree() up to its `try`: common root, remote root, mkstemp, packing
PutTreeStart(g) ==
    /\ unit.kind = "put" /\ unit.pc = "loop" /\ g \in unit.todo
    /\ ~IsSingle(unit.groups[g])
    /\ LET grp == unit.groups[g]
           remote_dir == to_remote_path(grp.conn, most(grp.paths))
       IN  IF remote_dir.raised
           THEN /\ unit' = Raise(Attempt(g), "ValueError")
                /\ UNCHANGED <<localTmp, nextTmp>>
           ELSE \E packed \in BOOLEAN :
                    LET u == Logged([Attempt(g) EXCEPT !.tmp = nextTmp],
                                    <<<<g, "mkstemp">>>>)
                    IN  /\ localTmp' = localTmp \cup {nextTmp}
                        /\ nextTmp' = nextTmp + 1
                        /\ unit' = IF packed
                                   THEN [Logged(u, <<<<g, "pack">>>>)
                                            EXCEPT !.pc = "upload"]
                                   ELSE Raise(u, "OSError")
    /\ UNCHANGED <<xvars, rvars, cancelled, remoteTmp, cancelCmd>>

\* how puttree() leaves its try statement after the call that ended with
\* `o` failed: the except clause if it catches, then the finally clause
PutFailed(events, o) ==
    LET g == unit.cur
    IN  IF CaughtByPipeline(o)
        THEN [Logged(unit, events \o <<<<g, "status_fail">>, <<g, "rm_local">>>>)
                 EXCEPT !.pc = "loop"]
        ELSE Raise(Logged(unit, events \o <<<<g, "rm_local">>>>), o)

\* the upload of the archive, super().putfile(local_tmp, remote_tmp)
PutUpload ==
    /\ unit.kind = "put" /\ unit.pc = "upload"
    /\ \E o \in Outcomes(unit.groups[unit.cur].conn), written \in BOOLEAN :
           LET g == unit.cur
           IN  IF o = "ok"
               THEN /\ written
                    /\ remoteTmp' = remoteTmp \cup {unit.tmp}
                    /\ unit' = [Logged(unit, <<<<g, "upload">>>>)
                                   EXCEPT !.pc = "unpack"]
                    /\ UNCHANGED localTmp
               ELSE /\ remoteTmp' = IF written THEN remoteTmp \cup {unit.tmp}
                                    ELSE remoteTmp
                    /\ unit' = PutFailed(CallEvents(g, "upload", o), o)
                    /\ localTmp' = localTmp \ {unit.tmp}
    /\ UNCHANGED <<xvars, rvars, cancelled, nextTmp, cancelCmd>>

\* the last step with the success status reported before the remote command
PutUnpack_StatusFirst ==
    /\ unit.kind = "put" /\ unit.pc = "unpack"
    /\ \E o \in Outcomes(unit.groups[unit.cur].conn), rmRan \in BOOLEAN :
           LET g == unit.cur
               u == Logged(unit, <<<<g, "status_ok">>>>)
           IN  /\ (o = "ok") => rmRan
               /\ remoteTmp' = IF rmRan THEN remoteTmp \ {unit.tmp} ELSE remoteTmp
               /\ unit' = IF o = "ok"
                          THEN [Logged(u, <<<<g, "plink_unpack">>, <<g, "rm_local">>>>)
                                   EXCEPT !.pc = "loop"]
                          ELSE [Logged(u, CallEvents(g, "plink_unpack", o)
                                          \o <<<<g, "status_fail">>, <<g, "rm_local">>>>)
                                   EXCEPT !.pc = "loop"]
    /\ localTmp' = localTmp \ {unit.tmp}
    /\ UNCHANGED <<xvars, rvars, cancelled, nextTmp, cancelCmd>>

\* conn.plink("mkdir -p ...; tar -C ... -xf ...; rm ..."), the status and
\* the finally clause
PutUnpack ==
    /\ unit.kind = "put" /\ unit.pc = "unpack"
    /\ \E o \in Outcomes(unit.groups[unit.cur].conn), rmRan \in BOOLEAN :
           LET g == unit.cur
           IN  /\ (o = "ok") => rmRan
               /\ remoteTmp' = IF rmRan THEN remoteTmp \ {unit.tmp} ELSE remoteTmp
               /\ unit' = IF o = "ok"
                          THEN [Logged(unit, <<<<g, "plink_unpack">>,
                                               <<g, "status_ok">>,
                                               <<g, "rm_local">>>>)
                                   EXCEPT !.pc = "loop"]
                          ELSE PutFailed(CallEvents(g, "plink_unpack", o), o)
    /\ localTmp' = localTmp \ {unit.tmp}
    /\ UNCHANGED <<xvars, rvars, cancelled, nextTmp, cancelCmd>>

\* --------------------------------------------------------- ScpGetCommand

\* run() and the grouping loop of executor()
GetExecute(paths) ==
    /\ unit.pc = "idle"
    /\ LET r == GroupLoop(paths, <<>>)
           u == [unit EXCEPT !.kind = "get", !.paths = paths]
       IN  unit' = IF r.raised
                   THEN Raise(u, RaisedNotConnected)
                   ELSE [u EXCEPT !.pc = "loop", !.groups = r.groups,
                                  !.todo = 1..Len(r.groups)]
    /\ UNCHANGED <<xvars, rvars, cancelled, localTmp, remoteTmp, nextTmp, cancelCmd>>

\* the single-file branch: conn.getfile(paths[0])
GetSingle(g) ==
    /\ unit.kind = "get" /\ unit.pc = "loop" /\ g \in unit.todo
    /\ IsSingle(unit.groups[g])
    /\ LET grp == unit.groups[g]
           remote == to_remote_path(grp.conn, grp.paths[1])
       IN  IF remote.raised
           THEN unit' = Raise(Attempt(g), "ValueError")
           ELSE \E o \in Outcomes(grp.conn) :
                    unit' = IF o = "ok"
                            THEN Logged(Attempt(g),
                                        <<<<g, "getfile">>, <<g, "status_ok">>>>)
                            ELSE Raise(Logged(Attempt(g),
                                              CallEvents(g, "getfile", o)), o)
    /\ UNCHANGED <<xvars, rvars, cancelled, localTmp, remoteTmp, nextTmp, cancelCmd>>

\* gettree() up to its `try`: common root, remote root, mkstemp
GetTreeStart(g) ==
    /\ unit.kind = "get" /\ unit.pc = "loop" /\ g \in unit.todo
    /\ ~IsSingle(unit.groups[g])
    /\ LET grp == unit.groups[g]
           remote_dir == to_remote_path(grp.conn, most(grp.paths))
       IN  IF remote_dir.raised
           THEN /\ unit' = Raise(Attempt(g), "ValueError")
                /\ UNCHANGED <<localTmp, nextTmp>>
           ELSE /\ localTmp' = localTmp \cup {nextTmp}
                /\ nextTmp' = nextTmp + 1
                /\ unit' = [Logged([Attempt(g) EXCEPT !.tmp = nextTmp],
                                   <<<<g, "mkstemp">>>>)
                               EXCEPT !.pc = "rpack"]
    /\ UNCHANGED <<xvars, rvars, cancelled, remoteTmp, cancelCmd>>

\* how gettree() leaves the body of its try statement after the failure
\* `o`: the except clause if it catches; the finally clause follows
GetFailed(events, o) ==
    LET g == unit.cur
    IN  IF CaughtByPipeline(o)
        THEN [Logged(unit, events \o <<<<g, "status_fail">>>>)
                 EXCEPT !.pc = "rremove"]
        ELSE [Logged(unit, events) EXCEPT !.pc = "rremove", !.pending = o]

\* conn.plink("tar -C ... -cf ... .")
GetPack ==
    /\ unit.kind = "get" /\ unit.pc = "rpack"
    /\ \E o \in Outcomes(unit.groups[unit.cur].conn), written \in BOOLEAN :
           LET g == unit.cur
           IN  /\ (o = "ok") => written
               /\ remoteTmp' = IF written THEN remoteTmp \cup {unit.tmp}
                               ELSE remoteTmp
               /\ unit' = IF o = "ok"
                          THEN [Logged(unit, <<<<g, "plink_pack">>>>)
                                   EXCEPT !.pc = "download"]
                          ELSE GetFailed(CallEvents(g, "plink_pack", o), o)
    /\ UNCHANGED <<xvars, rvars, cancelled, localTmp, nextTmp, cancelCmd>>

\* the download of the archive, super().getfile(remote_tmp, local_tmp), and
\* the local extraction
GetDownload ==
    /\ unit.kind = "get" /\ unit.pc = "download"
    /\ \E o \in Outcomes(unit.groups[unit.cur].conn), extracted \in BOOLEAN :
           LET g == unit.cur
           IN  /\ (o # "ok") => extracted
               /\ unit' = IF o # "ok"
                          THEN GetFailed(CallEvents(g, "download", o), o)
                          ELSE IF extracted
                          THEN [Logged(unit, <<<<g, "download">>, <<g, "extract">>,
                                               <<g, "status_ok">>>>)
                                   EXCEPT !.pc = "rremove"]
                          ELSE [Logged(unit, <<<<g, "download">>>>)
                                   EXCEPT !.pc = "rremove", !.pending = "OSError"]
    /\ UNCHANGED <<xvars, rvars, cancelled, localTmp, remoteTmp, nextTmp, cancelCmd>>

\* a finally clause whose remote remove is not guarded: its error replaces
\* whatever was pending and leaves before the local file is removed
GetRemove_Unguarded ==
    /\ unit.kind = "get" /\ unit.pc = "rremove"
    /\ \E o \in Outcomes(unit.groups[unit.cur].conn) :
           LET g == unit.cur
               u == Logged(unit, CallEvents(g, "remove", o))
               v == Logged(u, <<<<g, "rm_local">>>>)
           IN  /\ remoteTmp' = IF o = "ok" THEN remoteTmp \ {unit.tmp}
                               ELSE remoteTmp
               /\ localTmp' = IF o = "ok" THEN localTmp \ {unit.tmp} ELSE localTmp
               /\ unit' = IF o # "ok"
                          THEN Raise([u EXCEPT !.pending = "none"], o)
                          ELSE IF unit.pending = "none"
                          THEN [v EXCEPT !.pc = "loop"]
                          ELSE Raise([v EXCEPT !.pending = "none"], unit.pending)
    /\ UNCHANGED <<xvars, rvars, cancelled, nextTmp, cancelCmd>>

\* the finally clause: super().remove(remote_tmp) and os.remove(local_tmp),
\* each under `except: pass`; then the pending exception goes on
GetRemove ==
    /\ unit.kind = "get" /\ unit.pc = "rremove"
    /\ \E o \in Outcomes(unit.groups[unit.cur].conn) :
           LET g == unit.cur
               u == Logged(unit, CallEvents(g, "remove", o) \o <<<<g, "rm_local">>>>)
           IN  /\ remoteTmp' = IF o = "ok" THEN remoteTmp \ {unit.tmp}
                               ELSE remoteTmp
               /\ unit' = IF unit.pending = "none"
                          THEN [u EXCEPT !.pc = "loop"]
                          ELSE Raise([u EXCEPT !.pending = "none"], unit.pending)
    /\ localTmp' = localTmp \ {unit.tmp}
    /\ UNCHANGED <<xvars, rvars, cancelled, nextTmp, cancelCmd>>

\* the executor returns when its loop over the groups is exhausted
ExecutorReturn ==
    /\ unit.pc = "loop" /\ unit.todo = {}
    /\ unit' = [unit EXCEPT !.pc = "done"]
    /\ UNCHANGED <<xvars, rvars, cancelled, localTmp, remoteTmp, nextTmp, cancelCmd>>

\* --------------------------------------------------------- ScpCancelCommand

\* task.busy()
Busy == unit.pc \notin {"idle", "done", "raised"}

\* SCPFolder.cancel(): super().cancel(), then raise ScpAbortError
SCPFolderCancel(client, c) ==
    [cancelled |-> c \cup {client.id}, outcome |-> "scpfolder.ScpAbortError"]

RECURSIVE CancelLoop(_, _)
\* the loop of ScpCancelCommand.run over its paths
CancelLoop(paths, c) ==
    IF paths = <<>>
    THEN [cancelled |-> c, outcome |-> "returned"]
    ELSE LET i == connection(connections, Head(paths))
         IN  IF i # 0
             THEN SCPFolderCancel(connections[i], c)
             ELSE IF ExceptNotConnected(RaisedNotConnected, HandledNotConnected)
             THEN CancelLoop(Tail(paths), c)
             ELSE [cancelled |-> c, outcome |-> RaisedNotConnected]

\* ScpCancelCommand.run(paths), for any list of paths: task.cancel_all(),
\* the loop, and the status when the loop has ended without an error
Cancel ==
    /\ Busy
    /\ \E r \in {CancelLoop(paths, cancelled) : paths \in PathLists} :
           /\ cancelled' = r.cancelled
           /\ cancelCmd' = [outcome |-> r.outcome,
                            status |-> r.outcome = "returned"]
    /\ unit' = [unit EXCEPT !.signalled = TRUE]
    /\ UNCHANGED <<xvars, rvars, localTmp, remoteTmp, nextTmp>>

\* ------------------------------------------------- the transfer specification

TransferDirs == {DirP, DirP2}

RECURSIVE ConnectAll(_, _)
\* the registry after connect() has been called on each path in turn
ConnectAll(paths, conns) ==
    IF paths = <<>> THEN conns
    ELSE ConnectAll(Tail(paths),
                    connect(conns, Head(paths), TRUE, Len(conns) + 1)[1])

TransferInit ==
    /\ win32 = FALSE
    /\ scpDirs = TransferDirs
    /\ connections \in { ConnectAll(<<>>, <<>>),
                         ConnectAll(<<DirP>>, <<>>),
                         ConnectAll(<<DirP2, DirP>>, <<>>) }
    /\ nextId = Len(connections) + 1
    /\ call = NoCall
    /\ TransferIdle

TransferNext ==
    \/ \E paths \in PathLists :
           \/ PutExecute(paths)
           \/ GetExecute(paths)
    \/ \E g \in 1..MaxPaths :
           \/ PutSingle(g)
           \/ PutTreeStart(g)
           \/ GetSingle(g)
           \/ GetTreeStart(g)
    \/ PutUpload
    \/ PutUnpack
    \/ GetPack
    \/ GetDownload
    \/ GetRemove
    \/ ExecutorReturn
    \/ Cancel

SpecTransfer == TransferInit /\ [][TransferNext]_vars

\* ------------------------------------------------------- transfer properties

\* no pipeline is between its first and its last step
PipelineEnded == unit.pc \in {"loop", "done", "raised"}

Terminated == unit.pc \in {"done", "raised"}

\* C1 (as claimed): whenever a bulk put or get pipeline run has ended, on
\* success, remote command error, local error or abort, the local temporary
\* archive it created is gone.
C1_LocalArchiveRemoved == PipelineEnded => localTmp = {}

\* C2 (as claimed): when the unit of a put or get request ends, every group
\* of the request has been attempted, whatever failed in another group.
C2_EveryGroupAttempted == Terminated => unit.todo = {}

RemoteOps ==
    {"putfile", "getfile", "upload", "plink_unpack", "plink_pack", "download",
     "remove"}

\* positions of the log at which a transport call unwound with the abort error
Aborts == {k \in 1..Len(unit.log) : unit.log[k][2] = "abort"}

\* positions of the log at which the unit issued a remote operation
Issued == {k \in 1..Len(unit.log) : unit.log[k][2] \in RemoteOps}

\* C3 (as claimed): after a transport call of the unit has unwound with the
\* abort error, the unit issues no further remote operation.
C3_NoRemoteOpAfterAbort ==
    \A a \in Aborts : \A k \in Issued : k < a

\* C4 (as claimed): when the cancel command has finished, every outstanding
\* task has been signalled, every session in the registry has been
\* cancelled, and the 'Aborted' status has been emitted.
C4_CancelReachesEverySession ==
    cancelCmd.outcome # "none" =>
        /\ unit.signalled
        /\ \A i \in 1..Len(connections) : connections[i].id \in cancelled
        /\ cancelCmd.status

\* the paths of a request that pass the filter and have a session
Eligible(paths) ==
    {paths[k] : k \in {j \in 1..Len(paths) :
                          /\ ~Filtered(paths[j])
                          /\ connection(connections, paths[j]) # 0}}

\* C9 (as claimed): the not-connected error of the lookup never leaves the
\* executor, and once grouping is over every path of the request that has a
\* session is in a group.
C9_NotConnectedSkipped ==
    unit.pc # "idle" =>
        /\ unit.exc # RaisedNotConnected
        /\ Eligible(unit.paths) \subseteq
               UNION {{unit.groups[g].paths[k] : k \in 1..Len(unit.groups[g].paths)} :
                         g \in 1..Len(unit.groups)}

\* C10 (as claimed): whenever a bulk put or get job has ended, on success or
\* on failure at any stage, no remote archive it created is left behind.
C10_RemoteArchiveRemoved == PipelineEnded => remoteTmp = {}

\* ------------------------------------------------- single-file upload

\* the events the unit has logged for group g, in order
EventsOf(g) ==
    LET idx == { k \in 1..Len(unit.log) : unit.log[k][1] = g }
        RECURSIVE Take(_)
        Take(k) == IF k > Len(unit.log) THEN <<>>
                   ELSE IF k \in idx THEN <<unit.log[k][2]>> \o Take(k + 1)
                   ELSE Take(k + 1)
    IN  Take(1)

\* group g of the running request holds exactly one path, a regular file
OneRegularFile(g) ==
    /\ Len(unit.groups[g].paths) = 1
    /\ unit.groups[g].paths[1] \notin LocalDirs

\* the loop has taken group g
Taken(g) == g \in 1..Len(unit.groups) /\ g \notin unit.todo

ArchiveEvents == {"mkstemp", "pack", "upload", "rm_local", "extract", "download"}
CommandEvents == {"plink_unpack", "plink_pack", "remove"}

\* C11: a put group of exactly one regular file is sent as one direct
\* single-file upload; nothing the unit does for that group creates a
\* temporary archive or runs a remote command, whether the upload succeeds
\* or fails.
C11_SingleFileDirectUpload ==
    unit.kind = "put" =>
        \A g \in 1..Len(unit.groups) :
            (OneRegularFile(g) /\ Taken(g)) =>
                LET ev == EventsOf(g)
                IN  /\ \A k \in 1..Len(ev) :
                           ev[k] \notin ArchiveEvents \cup CommandEvents
                    /\ Cardinality({ k \in 1..Len(ev) : ev[k] = "putfile" }) = 1

\* a single-file upload failed with a remote command error
C11_Witness ==
    /\ unit.kind = "put" /\ unit.pc = "raised" /\ unit.exc = "SCPCommandError"
    /\ OneRegularFile(unit.cur)
    /\ EventsOf(unit.cur) = <<"putfile", "error">>

\* ---------------------------------------- root_dir and the session operations

\* The paths root_dir is asked about: those of the registry, the declaration
\* files of /p and /p/q, and a file under a directory named .scp.
RootDirPaths ==
    RegistryPaths \cup
        { DirP \o Slash \o DotScp, DirPQ \o Slash \o DotScp,
          DirP \o Slash \o DotScp \o <<"/", "f">> }

\* The "path" entries a declaration file may carry.
RemotePaths ==
    { Slash, <<"/", "r">>, <<"/", "r", "/", ".", ".", "/", "s">> }

\* The sessions of the mapped directories, one per "path" entry.
Mappings ==
    { [id |-> 1, root |-> r, remote_path |-> rp] :
          r \in scpDirs, rp \in RemotePaths }

\* The local paths the session operations are given: the mapped directories,
\* files below them, and a file whose name starts with two dots.
SessionPaths ==
    { DirP, DirP \o <<"/", "f">>, DirPQ, DirPQ \o <<"/", "f">>, DirP2,
      DirP \o <<"/", ".", ".", "f">> }

RootDirCall(file_name) ==
    /\ mapperCall' = [NoMapperCall EXCEPT !.op = "root_dir", !.path = file_name,
                                          !.result = root_dir(file_name)]
    /\ UNCHANGED <<rvars, tvars, cmds>>

\* a session operation of one local path: the remote path is computed as an
\* argument of the transport call, so a ValueError leaves before the call
SessionOp(op, client, path) ==
    /\ ~win32
    /\ LET remote == to_remote_path(client, path)
       IN  mapperCall' =
               [op |-> op, path |-> path, client |-> client,
                raised |-> remote.raised, result |-> remote.val,
                io |-> IF remote.raised THEN <<>> ELSE <<<<op, remote.val>>>>]
    /\ UNCHANGED <<rvars, tvars, cmds>>

SessionRemove(client, path) == SessionOp("remove", client, path)
SessionMkdir(client, path) == SessionOp("mkdir", client, path)
SessionPutfile(client, path) == SessionOp("putfile", client, path)
SessionGetfile(client, path) == SessionOp("getfile", client, path)

MapperNext ==
    \/ \E file_name \in RootDirPaths : RootDirCall(file_name)
    \/ \E client \in Mappings, path \in SessionPaths : SessionRemove(client, path)
    \/ \E client \in Mappings, path \in SessionPaths : SessionMkdir(client, path)
    \/ \E client \in Mappings, path \in SessionPaths : SessionPutfile(client, path)
    \/ \E client \in Mappings, path \in SessionPaths : SessionGetfile(client, path)

SpecMapper == RegistryInit /\ [][MapperNext]_vars

SessionOps == {"remove", "mkdir", "putfile", "getfile"}

\* C12 (as claimed): for a path at or below the root of the mapping, the
\* mapped remote path has no ".." segment unless the call failed, and a
\* failed call leaves the session operation without remote I/O.
C12_NoDotDotSegment ==
    (mapperCall.op \in SessionOps
        /\ IsPathPrefix(mapperCall.client.root, mapperCall.path)) =>
        /\ ~mapperCall.raised =>
               \A k \in 1..Len(Segs(mapperCall.result)) :
                   Segs(mapperCall.result)[k] # DotDot
        /\ mapperCall.raised => mapperCall.io = <<>>

\* C12 (amended): for a path strictly below the root the mapped remote path
\* contains no ".." at all unless the call failed; for the root itself the
\* result is the declared remote path as written, ".." segments included;
\* a failed call leaves the session operation without remote I/O, and a
\* call that did not fail issues exactly one transport call on its result.
C12_NoDotDotBelowRoot ==
    (mapperCall.op \in SessionOps
        /\ IsPathPrefix(mapperCall.client.root, mapperCall.path)) =>
        /\ (~mapperCall.raised /\ mapperCall.path # mapperCall.client.root) =>
               ~Contains(mapperCall.result, DotDot)
        /\ mapperCall.path = mapperCall.client.root =>
               /\ ~mapperCall.raised
               /\ mapperCall.result = mapperCall.client.remote_path
        /\ mapperCall.raised => mapperCall.io = <<>>
        /\ ~mapperCall.raised =>
               mapperCall.io = <<<<mapperCall.op, mapperCall.result>>>>

\* C12 witness: a put of a file whose name starts with two dots, below the
\* root of a mapping whose remote path has no "..", failed.
C12_Witness ==
    /\ mapperCall.op = "putfile" /\ mapperCall.raised
    /\ mapperCall.path # mapperCall.client.root
    /\ IsPathPrefix(mapperCall.client.root, mapperCall.path)
    /\ ~Contains(mapperCall.client.remote_path, DotDot)

\* the directories at or above p, as spelled in p
DirsAtOrAbove(p) ==
    { SubSeq(p, 1, k) : k \in { j \in 1..Len(p) : IsPathPrefix(SubSeq(p, 1, j), p) } }

\* the mapped directory nearest to p among those at or above it, or NoRoot
NearestMapped(p) ==
    LET mapped == { d \in DirsAtOrAbove(p) : HasScp(d) }
    IN  IF mapped = {} THEN NoRoot
        ELSE CHOOSE d \in mapped : \A e \in mapped : Len(e) <= Len(d)

\* the components of p below the directory d
ComponentsBelow(d, p) ==
    LET segs == Segs(SubSeq(p, Len(d) + 1, Len(p)))
    IN  { segs[k] : k \in 1..Len(segs) }

\* C13 (as claimed): root_dir returns the nearest directory at or above the
\* path that holds a declaration file, and a falsy value only when there is
\* none.
C13_RootDirIsNearestMapped ==
    mapperCall.op = "root_dir" =>
        mapperCall.result = NearestMapped(mapperCall.path)

\* C13 (amended): root_dir returns the nearest directory at or above the
\* path that holds a declaration file when no component of the path below
\* that directory is named .scp; it returns a falsy value when there is no
\* such directory, and also when such a component exists.
C13_RootDirStopsAtDotScp ==
    mapperCall.op = "root_dir" =>
        LET d == NearestMapped(mapperCall.path)
        IN  mapperCall.result =
                IF d # NoRoot /\ DotScp \notin ComponentsBelow(d, mapperCall.path)
                THEN d ELSE NoRoot

\* C13 witness: asked about a file in /p/q with both /p and /p/q mapped,
\* root_dir answered /p/q.
C13_Witness ==
    /\ mapperCall.op = "root_dir"
    /\ mapperCall.path = DirPQ \o <<"/", "f">>
    /\ {DirP, DirPQ} \subseteq scpDirs
    /\ mapperCall.result = DirPQ

\* ------------------------------------------------ the filter of the grouping

DotGithub == <<".", "g", "i", "t", "h", "u", "b">>

\* Paths under the mapped /p handed to put and get: a file, a directory, a
\* file inside .git, the declaration file, and an entry named .github.
FilterPaths ==
    { DirP \o <<"/", "f">>, DirPQ,
      DirP \o Slash \o DotGit \o <<"/", "f">>,
      DirP \o Slash \o DotScp,
      DirP \o Slash \o DotGithub }

FilterLists == {q \in SeqsUpTo(FilterPaths, MaxPaths) : Distinct(q)}

FilterInit ==
    /\ win32 = FALSE
    /\ scpDirs = TransferDirs
    /\ connections \in { ConnectAll(<<DirP>>, <<>>),
                         ConnectAll(<<DirP2, DirP>>, <<>>) }
    /\ nextId = Len(connections) + 1
    /\ call = NoCall
    /\ TransferIdle

FilterNext ==
    \/ \E paths \in FilterLists :
           \/ PutExecute(paths)
           \/ GetExecute(paths)
    \/ \E g \in 1..MaxPaths :
           \/ PutSingle(g)
           \/ PutTreeStart(g)
           \/ GetSingle(g)
           \/ GetTreeStart(g)
    \/ PutUpload
    \/ PutUnpack
    \/ GetPack
    \/ GetDownload
    \/ GetRemove
    \/ ExecutorReturn

SpecFilter == FilterInit /\ [][FilterNext]_vars

\* .scp or .git is one of the components of the path
HasDroppedComponent(path) ==
    \E k \in 1..Len(Segs(path)) : Segs(path)[k] \in {DotScp, DotGit}

\* the paths the grouping step handed on to the transfers
Grouped ==
    UNION { { unit.groups[g].paths[k] : k \in 1..Len(unit.groups[g].paths) } :
                g \in 1..Len(unit.groups) }

\* C14 (as claimed): of the paths of a put or get request that have an
\* active session, the grouping step hands on exactly those that do not
\* have .scp or .git as a path component.
C14_DropsExactlyDotComponents ==
    (unit.kind \in {"put", "get"} /\ unit.exc # RaisedNotConnected) =>
        \A k \in 1..Len(unit.paths) :
            connection(connections, unit.paths[k]) # 0 =>
                (unit.paths[k] \in Grouped <=> ~HasDroppedComponent(unit.paths[k]))

\* ------------------------------------------------ the order of a bulk transfer

\* the unit is no longer inside the pipeline of group g
EndedFor(g) == Taken(g) /\ (unit.cur # g \/ unit.pc \in {"loop", "done", "raised"})

Count(ev, name) == Cardinality({ k \in 1..Len(ev) : ev[k] = name })

\* the event logged just before position k, or "none"
Before(ev, k) == IF k > 1 THEN ev[k - 1] ELSE "none"

\* C16: in a bulk put the upload is issued once, directly after the packing
\* of the archive that mkstemp created; the remote command is issued once,
\* directly after the upload returned without an error; the success status
\* is reported directly after the remote command returned without an error;
\* and the removal of the local archive is the last thing done for the group.
C16_PutStepsInSequence ==
    unit.kind = "put" =>
        \A g \in 1..Len(unit.groups) :
            Taken(g) =>
                LET ev == EventsOf(g)
                IN  /\ \A k \in 1..Len(ev) :
                           /\ ev[k] = "pack" => Before(ev, k) = "mkstemp"
                           /\ ev[k] = "upload" => Before(ev, k) = "pack"
                           /\ ev[k] = "plink_unpack" => Before(ev, k) = "upload"
                           /\ ev[k] = "status_ok" =>
                                  Before(ev, k) \in {"plink_unpack", "putfile"}
                           /\ ev[k] = "rm_local" => k = Len(ev)
                    /\ Count(ev, "upload") <= 1
                    /\ Count(ev, "plink_unpack") <= 1
                    /\ (EndedFor(g) /\ Count(ev, "upload") = 1) =>
                           ev[Len(ev)] = "rm_local"

\* C16 witness: a bulk put has run all its steps and reported success
C16_Witness ==
    /\ unit.kind = "put" /\ unit.pc = "done"
    /\ \E g \in 1..Len(unit.groups) :
           EventsOf(g) = <<"mkstemp", "pack", "upload", "plink_unpack",
                           "status_ok", "rm_local">>

StageOps == {"upload", "plink_unpack", "plink_pack", "download"}

\* a stage of the bulk pipeline of group g ended with a remote command error
StageFailed(ev) ==
    \E k \in 2..Len(ev) : ev[k] = "error" /\ ev[k - 1] \in StageOps

\* C17: when a stage of a bulk put or get pipeline ends with a remote
\* command error, the group gets exactly one failure status and no success
\* status, no stage is issued twice, nothing but the failure status and the
\* cleanup follows the failed call, and once the pipeline has ended the
\* cleanup has run (the remote remove of a get, the local remove of both).
C17_RemoteErrorOneFailureStatus ==
    \A g \in 1..Len(unit.groups) :
        LET ev == EventsOf(g)
        IN  (Taken(g) /\ StageFailed(ev)) =>
                LET k == CHOOSE j \in 2..Len(ev) :
                             ev[j] = "error" /\ ev[j - 1] \in StageOps
                IN  /\ Count(ev, "status_fail") = 1
                    /\ Count(ev, "status_ok") = 0
                    /\ ev[k + 1] = "status_fail"
                    /\ \A s \in StageOps : Count(ev, s) <= 1
                    /\ \A j \in (k + 2)..Len(ev) :
                           ev[j] \in {"remove", "error", "abort", "rm_local"}
                    /\ EndedFor(g) =>
                           /\ Count(ev, "rm_local") = 1
                           /\ unit.cur = g => unit.tmp \notin localTmp
                           /\ unit.kind = "get" => Count(ev, "remove") = 1

\* C17 witness: the download of a bulk get failed and its pipeline has ended
C17_Witness ==
    /\ unit.kind = "get" /\ unit.pc = "done"
    /\ \E g \in 1..Len(unit.groups) :
           EventsOf(g) = <<"mkstemp", "plink_pack", "download", "error",
                           "status_fail", "remove", "rm_local">>

Statuses(ev) == SelectSeq(ev, LAMBDA e : e \in {"status_ok", "status_fail"})

\* C18: the step that ends a bulk get, whatever the outcome of its remote
\* remove, adds no status and changes none, removes the local temporary
\* file, and raises only the error that was already pending before it; with
\* none pending the executor goes on with its loop.
C18_RemoteRemoveBestEffort ==
    [][ (unit.kind = "get" /\ unit.pc = "rremove" /\ unit'.pc # "rremove") =>
          /\ SelectSeq(unit'.log, LAMBDA e : e[2] \in {"status_ok", "status_fail"})
                = SelectSeq(unit.log, LAMBDA e : e[2] \in {"status_ok", "status_fail"})
          /\ unit.tmp \notin localTmp'
          /\ unit'.log[Len(unit'.log)] = <<unit.cur, "rm_local">>
          /\ IF unit.pending = "none"
             THEN unit'.pc = "loop"
             ELSE unit'.pc = "raised" /\ unit'.exc = unit.pending ]_vars

\* C18 witness: after a download that was reported as done the remote
\* remove failed, and the executor went on and returned
C18_Witness ==
    /\ unit.kind = "get" /\ unit.pc = "done"
    /\ \E g \in 1..Len(unit.groups) :
           EventsOf(g) = <<"mkstemp", "plink_pack", "download", "extract",
                           "status_ok", "remove", "error", "rm_local">>

\* ---------------------------------------------------------- ScpDelCommand

\* run(): the unit starts on its list of paths
DelExecute(paths) ==
    /\ unit.pc = "idle"
    /\ unit' = [unit EXCEPT !.kind = "del", !.paths = paths, !.pc = "delloop"]
    /\ UNCHANGED <<xvars, rvars, cancelled, localTmp, remoteTmp, nextTmp, cancelCmd>>

\* one turn of `for path in paths`: the lookup, the remote remove and the
\* status, or the except clause that matches; events carry the index of
\* the path
DelStep ==
    /\ unit.kind = "del" /\ unit.pc = "delloop" /\ unit.cur < Len(unit.paths)
    /\ LET k == unit.cur + 1
           path == unit.paths[k]
           i == connection(connections, path)
           u == [unit EXCEPT !.cur = k]
       IN  IF i = 0
           THEN unit' = IF ExceptNotConnected(RaisedNotConnected, HandledNotConnected)
                        THEN u
                        ELSE Raise(u, RaisedNotConnected)
           ELSE IF to_remote_path(connections[i], path).raised
           THEN unit' = Raise(u, "ValueError")
           ELSE \E o \in Outcomes(connections[i]) :
                    unit' = IF o = "ok"
                            THEN Logged(u, <<<<k, "remove">>, <<k, "status_ok">>>>)
                            ELSE IF CaughtByPipeline(o)
                            THEN Logged(u, CallEvents(k, "remove", o)
                                           \o <<<<k, "status_fail">>>>)
                            ELSE Raise(Logged(u, CallEvents(k, "remove", o)), o)
    /\ UNCHANGED <<xvars, rvars, cancelled, localTmp, remoteTmp, nextTmp, cancelCmd>>

\* the executor returns when its loop over the paths is exhausted
DelReturn ==
    /\ unit.kind = "del" /\ unit.pc = "delloop" /\ unit.cur = Len(unit.paths)
    /\ unit' = [unit EXCEPT !.pc = "done"]
    /\ UNCHANGED <<xvars, rvars, cancelled, localTmp, remoteTmp, nextTmp, cancelCmd>>

DeleteNext ==
    \/ \E paths \in PathLists : DelExecute(paths)
    \/ DelStep
    \/ DelReturn
    \/ Cancel

SpecDelete == TransferInit /\ [][DeleteNext]_vars

\* the events logged for the k-th path of a delete
DelEvents(k) ==
    SelectSeq(unit.log, LAMBDA e : e[1] = k)

\* C19 (as claimed): when a delete that was not cancelled has ended, it has
\* created no archive; it has issued exactly one remote remove for every
\* path that has a session, in the order of the input, and none for the
\* others; and each path whose remove failed with a remote command error
\* has its own failure status, the paths after it having been processed
\* all the same.
C19_DeleteEveryConnectedPath ==
    (unit.kind = "del" /\ unit.pc \in {"done", "raised"} /\ cancelled = {}) =>
        /\ localTmp = {} /\ nextTmp = 1
        /\ \A k \in 1..Len(unit.paths) :
               LET names == [j \in 1..Len(DelEvents(k)) |-> DelEvents(k)[j][2]]
               IN  IF PrefixSessions(connections, unit.paths[k]) # {}
                   THEN names \in { <<"remove", "status_ok">>,
                                     <<"remove", "error", "status_fail">> }
                   ELSE names = <<>>
        /\ \A a, b \in 1..Len(unit.log) :
               a < b => unit.log[a][1] <= unit.log[b][1]

\* ------------------------------------------- ScpConnectCommand, concurrently

\* The paths given to the connect commands: files in the mapped /p and in
\* the mapped /p/q.
ConnectPaths == { DirP \o <<"/", "f">>, DirPQ \o <<"/", "f">> }

ConnectLists == {q \in SeqsUpTo(ConnectPaths, MaxPaths) : Distinct(q)}

\* the interactive thread is inside no handler
UiIdle == \A c \in CommandIds : cmds[c].ui = "idle"

\* ScpConnectCommand.is_enabled
is_enabled(c) == cmds[c].thread = "None"

\* the unit of command c goes on to the next path of all(...), or to the
\* end of the executor when connect() returned a falsy value or no path is
\* left
NextPath(cmd, truthy) ==
    IF truthy /\ cmd.k < Len(cmd.paths)
    THEN [cmd EXCEPT !.k = @ + 1, !.pc = "lookup", !.client = NoSession]
    ELSE [cmd EXCEPT !.pc = "clear", !.ok = truthy, !.client = NoSession]

\* task.call_func(self.executor, paths): a background unit that runs the
\* executor on the paths is started, next to the interactive thread
call_func(cmd, paths) ==
    [cmd EXCEPT !.paths = paths, !.k = 1, !.ok = TRUE,
                !.pc = IF paths = <<>> THEN "clear" ELSE "lookup"]

\* run() up to the return of task.call_func(): the unit has been started,
\* its thread object is not yet stored
CmdRun(c, paths) ==
    /\ UiIdle /\ is_enabled(c) /\ cmds[c].pc = "none"
    /\ cmds' = [cmds EXCEPT ![c] = [call_func(@, paths) EXCEPT !.ui = "assign"]]
    /\ UNCHANGED <<rvars, tvars, mapperCall>>

\* the assignment of run(): self.thread = <the thread call_func returned>
CmdAssign(c) ==
    /\ cmds[c].ui = "assign"
    /\ cmds' = [cmds EXCEPT ![c] = [@ EXCEPT !.ui = "idle", !.thread = "Thread"]]
    /\ UNCHANGED <<rvars, tvars, mapperCall>>

\* connect(path): the lookup `return connection(path)`
UnitLookup(c) ==
    /\ cmds[c].pc = "lookup"
    /\ LET cmd == cmds[c]
           i == connection(connections, cmd.paths[cmd.k])
       IN  cmds' = [cmds EXCEPT ![c] =
                       IF i # 0 THEN NextPath(cmd, TRUE)
                       ELSE [cmd EXCEPT !.pc = "construct"]]
    /\ UNCHANGED <<rvars, tvars, mapperCall>>

\* connect(path): SCPFolder(path), which reads the declaration file
UnitConstruct(c) ==
    /\ cmds[c].pc = "construct"
    /\ nextId <= MaxConnects
    /\ \E cfgOk \in BOOLEAN :
           LET cmd == cmds[c]
               path == cmd.paths[cmd.k]
               client == SCPFolderInit(IF win32 THEN Lower(path) ELSE path,
                                       cfgOk, nextId)
           IN  /\ cmds' = [cmds EXCEPT ![c] =
                               IF client = NoSession THEN NextPath(cmd, FALSE)
                               ELSE [cmd EXCEPT !.pc = "append", !.client = client]]
               /\ nextId' = IF client = NoSession THEN nextId ELSE nextId + 1
    /\ UNCHANGED <<win32, scpDirs, connections, call, tvars, mapperCall>>

\* connect(path): connections.append(client)
UnitAppend(c) ==
    /\ cmds[c].pc = "append"
    /\ connections' = Append(connections, cmds[c].client)
    /\ cmds' = [cmds EXCEPT ![c] = NextPath(@, TRUE)]
    /\ UNCHANGED <<win32, scpDirs, nextId, call, tvars, mapperCall>>

\* the end of executor(): self.thread = None
UnitClear(c) ==
    /\ cmds[c].pc = "clear"
    /\ cmds' = [cmds EXCEPT ![c] = [@ EXCEPT !.pc = "none", !.thread = "None"]]
    /\ UNCHANGED <<rvars, tvars, mapperCall>>

\* ScpDisconnectCommand.run on one path, on the interactive thread
CmdDisconnect(path) ==
    /\ UiIdle
    /\ connections' = disconnect(connections, path)
    /\ UNCHANGED <<win32, scpDirs, nextId, call, tvars, xvars>>

ConnectInit ==
    /\ win32 = FALSE
    /\ scpDirs \in { {DirP}, {DirP, DirPQ} }
    /\ connections = <<>>
    /\ nextId = 1
    /\ call = NoCall
    /\ TransferIdle

ConnectNext ==
    \/ \E c \in CommandIds, paths \in ConnectLists : CmdRun(c, paths)
    \/ \E c \in CommandIds :
           \/ CmdAssign(c)
           \/ UnitLookup(c)
           \/ UnitConstruct(c)
           \/ UnitAppend(c)
           \/ UnitClear(c)
    \/ \E path \in ConnectPaths : CmdDisconnect(path)

SpecConnect == ConnectInit /\ [][ConnectNext]_vars

\* no connect unit is running
NoUnitRunning == \A c \in CommandIds : cmds[c].pc = "none"

\* C15 (as claimed): whenever no connect unit is running the registry is
\* one that connect and disconnect calls made one after the other can
\* produce: no session's root starts with the root of a session registered
\* before it, so no root has two sessions.
C15_ConnectsSerializable ==
    NoUnitRunning =>
        \A i, j \in 1..Len(connections) :
            i < j => ~StartsWith(connections[j].root, connections[i].root)

\* C20 (as claimed): once the unit of a connect command has finished and
\* run() has returned, the command is enabled.
C20_EnabledAfterUnitFinished ==
    \A c \in CommandIds :
        (cmds[c].pc = "none" /\ cmds[c].ui = "idle") => is_enabled(c)

=============================================================================
